---- MODULE Spec2Model ----
(***************************************************************************)
(* mdServerTlfStorage: the per-TLF metadata storage of the disk MD server. *)
(* One coordinator owns an object store (dir/mds), a key-bundle store      *)
(* (dir/wkbv3, dir/rkbv3), one journal per branch and the in-memory map of *)
(* open branch journals, all behind one sync.RWMutex.                      *)
(***************************************************************************)
EXTENDS Integers, Sequences, FiniteSets, TLC

\* ------------------------------------------------------------------ bounds

MaxRev == 3
MaxClock == 2
MaxObjects == 3

\* ------------------------------------------------------------- the domains

Users == {"A", "B"}

NullBranchID == "null"

PutBranches == {NullBranchID, "b1"}

Branches == PutBranches \cup {"b2"}

Revisions == 1..MaxRev

Threads == {"t1", "t2", "t3"}

NoThread == "none"

\* The zero value of MdID, TLFWriterKeyBundleID and TLFReaderKeyBundleID.
EmptyID == <<>>

\* time.Time's zero value, carried by an object no server has stamped.
ZeroTime == 0

\* -------------------------------------------------------------- the errors

Nil == [kind |-> "nil", cause |-> "nil"]

Err(k) == [kind |-> k, cause |-> "nil"]

MDServerError(e) == [kind |-> "MDServerError", cause |-> e.kind]

MDServerErrorUnauthorized == Err("Unauthorized")

MDServerErrorBadRequest(e) == [kind |-> "BadRequest", cause |-> e.kind]

errMDServerTlfStorageShutdown == Err("Shutdown")

\* The injected storage failures: the kind of file operation that fails
\* during one call ("none": the disk works). "readJournal" fails every read
\* of a journal, "readRange" only the reads a range needs beyond those of
\* the latest entry (the EARLIEST marker, the older entries).
Faults ==
  {"none", "readMD", "readJournal", "readRange", "readKB", "writeMD",
   "writeWKB", "writeRKB", "mkdir", "append"}

\* ------------------------------------------------- collaborators (crypto)

MakeMdID(md) == <<"MdID", md>>

MakeTLFWriterKeyBundleID(wkb) == <<"WKBID", wkb>>

MakeTLFReaderKeyBundleID(rkb) == <<"RKBID", rkb>>

\* -------------------------------------------------- collaborators (codec)

\* The encoded bytes hold the signed object's exported fields; the
\* server timestamp is not one of them.
EncodeRootMetadataSigned(rmds) == <<"bytes", rmds.MD, rmds.SigInfo>>

DecodeRootMetadataSigned(buf, ts) ==
  [MD |-> buf[2], SigInfo |-> buf[3], untrustedServerTimestamp |-> ts]

\* ------------------------------------------------------- the key bundles

W1 == [TLFWriters |-> {"A"}]

W2 == [TLFWriters |-> {"A", "B"}]

R1 == [TLFReaders |-> {}]

R2 == [TLFReaders |-> {"B"}]

WKBs == {W1, W2}

RKBs == {R1, R2}

WKBIDs == {MakeTLFWriterKeyBundleID(w) : w \in WKBs}

RKBIDs == {MakeTLFReaderKeyBundleID(r) : r \in RKBs}

\* ExtraMetadata: nil is <<>>, a value is a one-element sequence.
NoExtra == <<>>

ExtraMetadataV3(wkb, rkb) == <<[type |-> "V3", wkb |-> wkb, rkb |-> rkb]>>

\* The writers of a TLF whose metadata references no key bundles.
HandleWriters == {"A"}

\* ------------------------------------------ collaborators (authorization)

isWriter(uid, md, extra) ==
  IF extra = NoExtra THEN uid \in HandleWriters
  ELSE uid \in extra[1].wkb.TLFWriters

isReader(uid, md, extra) ==
  \/ isWriter(uid, md, extra)
  \/ extra # NoExtra /\ uid \in extra[1].rkb.TLFReaders

isWriterOrValidRekey(uid, mergedMD, newMD, prevExtra, extra) ==
  \/ isWriter(uid, mergedMD, prevExtra)
  \/ isReader(uid, mergedMD, prevExtra) /\ newMD.RekeyRequest

\* ---------------------------------------------- collaborators (metadata)

KeyOf(uid) == <<"key", uid>>

IsValidAndSigned(rmds, extra) == rmds.SigInfo.Valid

IsLastModifiedBy(rmds, uid, key) ==
  rmds.MD.LastModifier = uid /\ rmds.SigInfo.VerifyingKey = key

CheckValidSuccessorForServer(headMD, headID, nextMD) ==
  nextMD.Revision = headMD.Revision + 1 /\ nextMD.PrevRoot = headID

\* ---------------------------------------------------------------- state

VARIABLES
  mds,             \* dir/mds: MdID -> serializedRMDS
  wkbs,            \* dir/wkbv3: TLFWriterKeyBundleID -> stored bundle
  rkbs,            \* dir/rkbv3: TLFReaderKeyBundleID -> stored bundle
  journals,        \* dir/md_branch_journals: BranchID -> journal on disk
  branchJournals,  \* the in-memory map's keys, or NilMap after shutdown
  clock,           \* s.clock.Now()
  pc,              \* where the calling client is
  req,             \* the call in progress or just returned
  res,             \* what that call returned
  tpc,             \* per thread: where it is in its call (idle, waiting, in, ...)
  top,             \* per thread: the operation it is calling
  lockW,           \* s.lock: the thread holding it exclusively
  lockR,           \* s.lock: the threads holding it shared
  lockPending      \* s.lock: writers that announced themselves and wait

vars ==
  <<mds, wkbs, rkbs, journals, branchJournals, clock, pc, req, res, tpc, top,
    lockW, lockR, lockPending>>

disk == <<mds, wkbs, rkbs, journals>>

lockVars == <<tpc, top, lockW, lockR, lockPending>>

\* A nil map: no branch id is a key of it.
NilMap == {"<nil>"}

NoReq == [op |-> "none"]

NoRes == [err |-> Nil]

EmptyJournal == [dir |-> FALSE, earliest |-> 0, entries |-> <<>>]

\* ------------------------------------------------ files (kbfscodec, os)

\* kbfscodec.DeserializeFromFile: the value stored at a path, an
\* os.IsNotExist error when there is no file, an I/O error when the read
\* fails.
DeserializeFromFile(store, id, fails) ==
  IF id \notin DOMAIN store THEN [err |-> Err("NotExist"), val |-> <<>>]
  ELSE IF fails THEN [err |-> Err("IO"), val |-> <<>>]
  ELSE [err |-> Nil, val |-> <<store[id]>>]

\* kbfscodec.SerializeToFile: the store with the value written at the path.
SerializeToFile(store, id, val) == (id :> val) @@ store

\* ---------------------------------------------------------- object store

\* The element of a one-element set: The({e(x) : x \in {v}}) is e(v), with
\* v computed once.
The(S) == CHOOSE x \in S : TRUE

getMDReadLocked(id, fault) ==
  LET f == DeserializeFromFile(mds, id, fault = "readMD")
      io == {<<"mds", id>>}
      srmds == f.val[1]
      rmds == DecodeRootMetadataSigned(srmds.EncodedRMDS, srmds.Timestamp)
      mdID == MakeMdID(rmds.MD)
  IN IF f.err # Nil THEN [err |-> f.err, rmds |-> <<>>, io |-> io]
     ELSE IF id # mdID
     THEN [err |-> Err("IDMismatch"), rmds |-> <<>>, io |-> io]
     ELSE [err |-> Nil, rmds |-> <<rmds>>, io |-> io]

\* An object store that hashes the whole signed object.
putMDLockedHashesAll(rmds, fault) ==
  LET id == MakeMdID(rmds)
      srmds == [EncodedRMDS |-> EncodeRootMetadataSigned(rmds),
                Timestamp |-> clock,
                Version |-> "v3"]
  IN The({IF got.err.kind = "NotExist"
          THEN IF fault = "writeMD"
               THEN [err |-> Err("IO"), id |-> EmptyID, mds |-> mds,
                     io |-> got.io]
               ELSE [err |-> Nil, id |-> id,
                     mds |-> SerializeToFile(mds, id, srmds), io |-> got.io]
          ELSE IF got.err # Nil
          THEN [err |-> got.err, id |-> EmptyID, mds |-> mds, io |-> got.io]
          ELSE [err |-> Nil, id |-> id, mds |-> mds, io |-> got.io] :
            got \in {getMDReadLocked(id, fault)}})

\* An object store that writes without looking for a stored object.
putMDLockedAlwaysWrites(rmds, fault) ==
  LET id == MakeMdID(rmds.MD)
      srmds == [EncodedRMDS |-> EncodeRootMetadataSigned(rmds),
                Timestamp |-> clock,
                Version |-> "v3"]
  IN IF fault = "writeMD"
     THEN [err |-> Err("IO"), id |-> EmptyID, mds |-> mds,
           io |-> {<<"mds", id>>}]
     ELSE [err |-> Nil, id |-> id, mds |-> SerializeToFile(mds, id, srmds),
           io |-> {<<"mds", id>>}]

putMDLocked(rmds, fault) ==
  LET id == MakeMdID(rmds.MD)
      srmds == [EncodedRMDS |-> EncodeRootMetadataSigned(rmds),
                Timestamp |-> clock,
                Version |-> "v3"]
  IN The({IF got.err.kind = "NotExist"
          THEN IF fault = "writeMD"
               THEN [err |-> Err("IO"), id |-> EmptyID, mds |-> mds,
                     io |-> got.io]
               ELSE [err |-> Nil, id |-> id,
                     mds |-> SerializeToFile(mds, id, srmds), io |-> got.io]
          ELSE IF got.err # Nil
          THEN [err |-> got.err, id |-> EmptyID, mds |-> mds, io |-> got.io]
          ELSE [err |-> Nil, id |-> id, mds |-> mds, io |-> got.io] :
            got \in {getMDReadLocked(id, fault)}})

\* ------------------------------------------------------- key-bundle store

\* An integrity check of the writer bundle only.
checkKeyBundlesWriterOnly(wkbID, rkbID, wkb, rkb) ==
  IF wkbID # MakeTLFWriterKeyBundleID(wkb) THEN Err("WKBIDMismatch")
  ELSE Nil

checkKeyBundlesV3(wkbID, rkbID, wkb, rkb) ==
  IF wkbID # MakeTLFWriterKeyBundleID(wkb) THEN Err("WKBIDMismatch")
  ELSE IF rkbID # MakeTLFReaderKeyBundleID(rkb) THEN Err("RKBIDMismatch")
  ELSE Nil

getKeyBundlesReadLocked(wkbID, rkbID, fault) ==
  IF (wkbID = EmptyID) # (rkbID = EmptyID)
  THEN [err |-> Err("EmptyMismatch"), wkb |-> <<>>, rkb |-> <<>>, io |-> {}]
  ELSE IF wkbID = EmptyID
  THEN [err |-> Nil, wkb |-> <<>>, rkb |-> <<>>, io |-> {}]
  ELSE
    LET w == DeserializeFromFile(wkbs, wkbID, fault = "readKB")
        r == DeserializeFromFile(rkbs, rkbID, fault = "readKB")
        wio == {<<"wkbv3", wkbID>>}
        rio == {<<"rkbv3", rkbID>>}
    IN IF w.err # Nil
       THEN [err |-> w.err, wkb |-> <<>>, rkb |-> <<>>, io |-> wio]
       ELSE IF r.err # Nil
       THEN [err |-> r.err, wkb |-> <<>>, rkb |-> <<>>, io |-> wio \cup rio]
       ELSE LET c == checkKeyBundlesV3(wkbID, rkbID, w.val[1], r.val[1])
            IN IF c # Nil
               THEN [err |-> c, wkb |-> <<>>, rkb |-> <<>>,
                     io |-> wio \cup rio]
               ELSE [err |-> Nil, wkb |-> w.val, rkb |-> r.val,
                     io |-> wio \cup rio]

getExtraMetadataReadLocked(wkbID, rkbID, fault) ==
  The({IF kb.err # Nil
       THEN [err |-> kb.err, extra |-> NoExtra, io |-> kb.io]
       ELSE IF kb.wkb = <<>> \/ kb.rkb = <<>>
       THEN [err |-> Nil, extra |-> NoExtra, io |-> kb.io]
       ELSE [err |-> Nil, extra |-> ExtraMetadataV3(kb.wkb[1], kb.rkb[1]),
             io |-> kb.io] :
         kb \in {getKeyBundlesReadLocked(wkbID, rkbID, fault)}})

\* A bundle write that does not compare the bundles with the ids.
putExtraMetadataLockedUnchecked(rmds, extra, fault) ==
  LET wkbID == rmds.MD.WKBID
      rkbID == rmds.MD.RKBID
      same == [wkbs |-> wkbs, rkbs |-> rkbs, io |-> {}]
  IN IF extra = NoExtra THEN [err |-> Nil] @@ same
     ELSE IF wkbID = EmptyID \/ rkbID = EmptyID
     THEN [err |-> Err("panic")] @@ same
     ELSE IF extra[1].type # "V3" THEN [err |-> Err("InvalidExtra")] @@ same
     ELSE
       LET wio == {<<"wkbv3", wkbID>>}
           rio == {<<"rkbv3", rkbID>>}
           wrote == SerializeToFile(wkbs, wkbID, extra[1].wkb)
       IN IF fault = "writeWKB"
          THEN [err |-> Err("IO"), wkbs |-> wkbs, rkbs |-> rkbs, io |-> wio]
          ELSE IF fault = "writeRKB"
          THEN [err |-> Err("IO"), wkbs |-> wrote, rkbs |-> rkbs,
                io |-> wio \cup rio]
          ELSE [err |-> Nil, wkbs |-> wrote,
                rkbs |-> SerializeToFile(rkbs, rkbID, extra[1].rkb),
                io |-> wio \cup rio]

putExtraMetadataLocked(rmds, extra, fault) ==
  LET wkbID == rmds.MD.WKBID
      rkbID == rmds.MD.RKBID
      same == [wkbs |-> wkbs, rkbs |-> rkbs, io |-> {}]
  IN IF extra = NoExtra THEN [err |-> Nil] @@ same
     ELSE IF wkbID = EmptyID \/ rkbID = EmptyID
     THEN [err |-> Err("panic")] @@ same
     ELSE IF extra[1].type # "V3" THEN [err |-> Err("InvalidExtra")] @@ same
     ELSE
       LET c == checkKeyBundlesV3(wkbID, rkbID, extra[1].wkb, extra[1].rkb)
           wio == {<<"wkbv3", wkbID>>}
           rio == {<<"rkbv3", rkbID>>}
           wrote == SerializeToFile(wkbs, wkbID, extra[1].wkb)
       IN IF c # Nil THEN [err |-> c] @@ same
          ELSE IF fault = "writeWKB"
          THEN [err |-> Err("IO"), wkbs |-> wkbs, rkbs |-> rkbs, io |-> wio]
          ELSE IF fault = "writeRKB"
          THEN [err |-> Err("IO"), wkbs |-> wrote, rkbs |-> rkbs,
                io |-> wio \cup rio]
          ELSE [err |-> Nil, wkbs |-> wrote,
                rkbs |-> SerializeToFile(rkbs, rkbID, extra[1].rkb),
                io |-> wio \cup rio]

\* ------------------------------------------------- branch journal (mdIDJournal)

latestRevision(j) == j.earliest + Len(j.entries) - 1

length(j, fault) ==
  IF fault = "readJournal" THEN [err |-> Err("IO"), n |-> 0]
  ELSE [err |-> Nil, n |-> Len(j.entries)]

getLatestEntry(j, fault) ==
  IF fault = "readJournal"
  THEN [err |-> Err("IO"), exists |-> FALSE, ID |-> EmptyID]
  ELSE IF j.entries = <<>>
  THEN [err |-> Nil, exists |-> FALSE, ID |-> EmptyID]
  ELSE [err |-> Nil, exists |-> TRUE, ID |-> j.entries[Len(j.entries)]]

\* The entries with revisions in [start, stop], clamped to what exists,
\* and the first revision actually returned.
getEntryRange(j, start, stop, fault) ==
  LET lo == IF start < j.earliest THEN j.earliest ELSE start
      hi == IF stop > latestRevision(j) THEN latestRevision(j) ELSE stop
  IN IF fault \in {"readJournal", "readRange"}
     THEN [err |-> Err("IO"), realStart |-> 0, entries |-> <<>>]
     ELSE IF j.entries = <<>> \/ hi < lo
     THEN [err |-> Nil, realStart |-> 0, entries |-> <<>>]
     ELSE [err |-> Nil, realStart |-> lo,
           entries |-> [i \in 1..(hi - lo + 1) |->
                          j.entries[lo - j.earliest + i]]]

\* The first append sets the starting revision; every later one must be
\* the latest revision + 1.
append(j, r, id, fault) ==
  IF fault = "append" THEN [err |-> Err("IO"), j |-> j]
  ELSE IF j.entries = <<>>
  THEN [err |-> Nil, j |-> [j EXCEPT !.earliest = r, !.entries = <<id>>]]
  ELSE IF r # latestRevision(j) + 1 THEN [err |-> Err("Ordinal"), j |-> j]
  ELSE [err |-> Nil, j |-> [j EXCEPT !.entries = Append(@, id)]]

\* ------------------------------------------------------- the coordinator

getOrCreateBranchJournalLocked(bid, fault) ==
  IF bid \in branchJournals
  THEN [err |-> Nil, branchJournals |-> branchJournals,
        journals |-> journals]
  ELSE IF fault = "mkdir"
  THEN [err |-> Err("IO"), branchJournals |-> branchJournals,
        journals |-> journals]
  ELSE IF branchJournals = NilMap
  THEN [err |-> Err("panic"), branchJournals |-> branchJournals,
        journals |-> [journals EXCEPT ![bid].dir = TRUE]]
  ELSE [err |-> Nil, branchJournals |-> branchJournals \cup {bid},
        journals |-> [journals EXCEPT ![bid].dir = TRUE]]

\* A head lookup that always reads the merged branch's journal.
getHeadForTLFMergedOnly(bid, fault) ==
  IF NullBranchID \notin branchJournals
  THEN [err |-> Nil, rmds |-> <<>>, io |-> {}]
  ELSE
    LET e == getLatestEntry(journals[NullBranchID], fault)
        jio == {<<"journal", NullBranchID>>}
    IN IF e.err # Nil THEN [err |-> e.err, rmds |-> <<>>, io |-> jio]
       ELSE IF ~e.exists THEN [err |-> Nil, rmds |-> <<>>, io |-> jio]
       ELSE [getMDReadLocked(e.ID, fault) EXCEPT !.io = @ \cup jio]

getHeadForTLFReadLocked(bid, fault) ==
  IF bid \notin branchJournals THEN [err |-> Nil, rmds |-> <<>>, io |-> {}]
  ELSE
    LET e == getLatestEntry(journals[bid], fault)
        jio == {<<"journal", bid>>}
    IN IF e.err # Nil THEN [err |-> e.err, rmds |-> <<>>, io |-> jio]
       ELSE IF ~e.exists THEN [err |-> Nil, rmds |-> <<>>, io |-> jio]
       ELSE [getMDReadLocked(e.ID, fault) EXCEPT !.io = @ \cup jio]

\* A reader check made against the head of the branch asked for.
checkGetParamsOwnBranch(currentUID, bid, fault) ==
  The({IF head.err # Nil
       THEN [err |-> MDServerError(head.err), io |-> head.io]
       ELSE IF head.rmds # <<>>
       THEN
         The({IF x.err # Nil
              THEN [err |-> MDServerError(x.err), io |-> head.io \cup x.io]
              ELSE IF ~isReader(currentUID, head.rmds[1].MD, x.extra)
              THEN [err |-> MDServerErrorUnauthorized,
                    io |-> head.io \cup x.io]
              ELSE [err |-> Nil, io |-> head.io \cup x.io] :
                x \in {getExtraMetadataReadLocked(head.rmds[1].MD.WKBID,
                                                  head.rmds[1].MD.RKBID,
                                                  fault)}})
       ELSE [err |-> Nil, io |-> head.io] :
         head \in {getHeadForTLFReadLocked(bid, fault)}})

checkGetParamsReadLocked(currentUID, bid, fault) ==
  The({IF mergedMasterHead.err # Nil
       THEN [err |-> MDServerError(mergedMasterHead.err),
             io |-> mergedMasterHead.io]
       ELSE IF mergedMasterHead.rmds # <<>>
       THEN
         The({IF x.err # Nil
              THEN [err |-> MDServerError(x.err),
                    io |-> mergedMasterHead.io \cup x.io]
              ELSE IF ~isReader(currentUID, mergedMasterHead.rmds[1].MD,
                                x.extra)
              THEN [err |-> MDServerErrorUnauthorized,
                    io |-> mergedMasterHead.io \cup x.io]
              ELSE [err |-> Nil, io |-> mergedMasterHead.io \cup x.io] :
                x \in {getExtraMetadataReadLocked(
                         mergedMasterHead.rmds[1].MD.WKBID,
                         mergedMasterHead.rmds[1].MD.RKBID, fault)}})
       ELSE [err |-> Nil, io |-> mergedMasterHead.io] :
         mergedMasterHead \in {getHeadForTLFReadLocked(NullBranchID, fault)}})

\* A loop that expects the entries' revisions one too high.
FirstBadCountsFromOne(got, realStart) ==
  LET bad == {i \in DOMAIN got :
                \/ got[i].err # Nil
                \/ got[i].rmds[1].MD.Revision # realStart + i}
  IN IF bad = {} THEN 0 ELSE CHOOSE i \in bad : \A k \in bad : i <= k

\* The index of the first entry of a range whose object cannot be read or
\* whose revision is not the expected one (0: none).
FirstBad(got, realStart) ==
  LET bad == {i \in DOMAIN got :
                \/ got[i].err # Nil
                \/ got[i].rmds[1].MD.Revision # realStart + (i - 1)}
  IN IF bad = {} THEN 0 ELSE CHOOSE i \in bad : \A k \in bad : i <= k

\* A range read whose loop stops one entry early.
getRangeEntriesDropsLast(bid, start, stop, fault, cio) ==
  LET r == getEntryRange(journals[bid], start, stop, fault)
      jio == cio \cup {<<"journal", bid>>}
  IN IF r.err # Nil THEN [err |-> r.err, rmdses |-> <<>>, io |-> jio]
     ELSE
       The({LET b == FirstBad(got, r.realStart)
                io == jio \cup UNION {got[i].io : i \in DOMAIN got}
            IN IF b = 0
               THEN [err |-> Nil,
                     rmdses |-> [i \in DOMAIN got |-> got[i].rmds[1]],
                     io |-> io]
               ELSE IF got[b].err # Nil
               THEN [err |-> MDServerError(got[b].err), rmdses |-> <<>>,
                     io |-> io]
               ELSE [err |-> Err("panic"), rmdses |-> <<>>, io |-> io] :
              got \in {[i \in 1..(Len(r.entries) - 1) |->
                          getMDReadLocked(r.entries[i], fault)]}})

\* getRangeReadLocked, lines 268-288: the journal's entries and the object
\* of each.
getRangeEntries(bid, start, stop, fault, cio) ==
  LET r == getEntryRange(journals[bid], start, stop, fault)
      jio == cio \cup {<<"journal", bid>>}
  IN IF r.err # Nil THEN [err |-> r.err, rmdses |-> <<>>, io |-> jio]
     ELSE
       The({LET b == FirstBad(got, r.realStart)
                io == jio \cup UNION {got[i].io : i \in DOMAIN got}
            IN IF b = 0
               THEN [err |-> Nil,
                     rmdses |-> [i \in DOMAIN got |-> got[i].rmds[1]],
                     io |-> io]
               ELSE IF got[b].err # Nil
               THEN [err |-> MDServerError(got[b].err), rmdses |-> <<>>,
                     io |-> io]
               ELSE [err |-> Err("panic"), rmdses |-> <<>>, io |-> io] :
              got \in {[i \in DOMAIN r.entries |->
                          getMDReadLocked(r.entries[i], fault)]}})

getRangeReadLocked(currentUID, bid, start, stop, fault) ==
  The({IF c.err # Nil THEN [err |-> c.err, rmdses |-> <<>>, io |-> c.io]
       ELSE IF bid \notin branchJournals
       THEN [err |-> Nil, rmdses |-> <<>>, io |-> c.io]
       ELSE getRangeEntries(bid, start, stop, fault, c.io) :
         c \in {checkGetParamsReadLocked(currentUID, bid, fault)}})

isShutdownReadLocked == branchJournals = NilMap

journalLength(bid, fault) ==
  IF isShutdownReadLocked
  THEN [err |-> errMDServerTlfStorageShutdown, n |-> 0, io |-> {}]
  ELSE IF bid \notin branchJournals THEN [err |-> Nil, n |-> 0, io |-> {}]
  ELSE LET l == length(journals[bid], fault)
       IN [err |-> l.err, n |-> l.n, io |-> {<<"journal", bid>>}]

getForTLF(currentUID, bid, fault) ==
  IF isShutdownReadLocked
  THEN [err |-> errMDServerTlfStorageShutdown, rmds |-> <<>>, io |-> {}]
  ELSE
    The({IF c.err # Nil THEN [err |-> c.err, rmds |-> <<>>, io |-> c.io]
         ELSE
           The({IF h.err # Nil
                THEN [err |-> MDServerError(h.err), rmds |-> <<>>,
                      io |-> c.io \cup h.io]
                ELSE [err |-> Nil, rmds |-> h.rmds, io |-> c.io \cup h.io] :
                  h \in {getHeadForTLFReadLocked(bid, fault)}}) :
           c \in {checkGetParamsReadLocked(currentUID, bid, fault)}})

getRange(currentUID, bid, start, stop, fault) ==
  IF isShutdownReadLocked
  THEN [err |-> errMDServerTlfStorageShutdown, rmdses |-> <<>>, io |-> {}]
  ELSE getRangeReadLocked(currentUID, bid, start, stop, fault)

getKeyBundles(wkbID, rkbID, fault) ==
  getKeyBundlesReadLocked(wkbID, rkbID, fault)

\* put, lines 479-487: the extra metadata the put works with, looked up
\* from the ids in the metadata when the caller passed none.
putResolveExtra(rmds, extra0, fault) ==
  IF extra0 # NoExtra THEN [err |-> Nil, extra |-> extra0, io |-> {}]
  ELSE The({IF x.err # Nil
            THEN [err |-> MDServerError(x.err), extra |-> NoExtra,
                  io |-> x.io]
            ELSE x :
              x \in {getExtraMetadataReadLocked(rmds.MD.WKBID, rmds.MD.RKBID,
                                                fault)}})

\* A permission check that lets every reader of the merged head write.
putCheckPermissionsAsReader(currentUID, rmds, extra, fault) ==
  The({IF mergedMasterHead.err # Nil
       THEN [err |-> MDServerError(mergedMasterHead.err),
             io |-> mergedMasterHead.io]
       ELSE IF mergedMasterHead.rmds = <<>>
       THEN [err |-> Nil, io |-> mergedMasterHead.io]
       ELSE
         The({IF prevExtra.err # Nil
              THEN [err |-> MDServerError(prevExtra.err),
                    io |-> mergedMasterHead.io \cup prevExtra.io]
              ELSE IF ~isReader(currentUID, mergedMasterHead.rmds[1].MD,
                                prevExtra.extra)
              THEN [err |-> MDServerErrorUnauthorized,
                    io |-> mergedMasterHead.io \cup prevExtra.io]
              ELSE [err |-> Nil,
                    io |-> mergedMasterHead.io \cup prevExtra.io] :
                prevExtra \in {getExtraMetadataReadLocked(
                                 mergedMasterHead.rmds[1].MD.WKBID,
                                 mergedMasterHead.rmds[1].MD.RKBID, fault)}}) :
         mergedMasterHead \in {getHeadForTLFReadLocked(NullBranchID, fault)}})

\* put, lines 501-524: the permission check against the merged head.
putCheckPermissions(currentUID, rmds, extra, fault) ==
  The({IF mergedMasterHead.err # Nil
       THEN [err |-> MDServerError(mergedMasterHead.err),
             io |-> mergedMasterHead.io]
       ELSE IF mergedMasterHead.rmds = <<>>
       THEN [err |-> Nil, io |-> mergedMasterHead.io]
       ELSE
         The({IF prevExtra.err # Nil
              THEN [err |-> MDServerError(prevExtra.err),
                    io |-> mergedMasterHead.io \cup prevExtra.io]
              ELSE IF ~isWriterOrValidRekey(currentUID,
                                            mergedMasterHead.rmds[1].MD,
                                            rmds.MD, prevExtra.extra, extra)
              THEN [err |-> MDServerErrorUnauthorized,
                    io |-> mergedMasterHead.io \cup prevExtra.io]
              ELSE [err |-> Nil,
                    io |-> mergedMasterHead.io \cup prevExtra.io] :
                prevExtra \in {getExtraMetadataReadLocked(
                                 mergedMasterHead.rmds[1].MD.WKBID,
                                 mergedMasterHead.rmds[1].MD.RKBID, fault)}}) :
         mergedMasterHead \in {getHeadForTLFReadLocked(NullBranchID, fault)}})

\* A comparison that accepts every new revision.
putCheckHeadAccepts(head, rmds, recordBranchID, io) ==
  [err |-> Nil, recordBranchID |-> recordBranchID, io |-> io]

\* put, lines 552-562: the new revision against the head it is compared
\* with.
putCheckHead(head, rmds, recordBranchID, io) ==
  IF ~CheckValidSuccessorForServer(head.MD, MakeMdID(head.MD), rmds.MD)
  THEN [err |-> Err("InvalidSuccessor"), recordBranchID |-> FALSE, io |-> io]
  ELSE [err |-> Nil, recordBranchID |-> recordBranchID, io |-> io]

\* A put that asks for a branch record on every put to an unmerged branch.
putCheckSuccessorAlwaysRecords(currentUID, rmds, fault) ==
  The({IF head.err # Nil
       THEN [err |-> MDServerError(head.err), recordBranchID |-> FALSE,
             io |-> head.io]
       ELSE IF rmds.MD.MStatus = "Unmerged" /\ head.rmds = <<>>
       THEN
         The({IF rmdses.err.kind = "panic"
              THEN [err |-> rmdses.err, recordBranchID |-> FALSE,
                    io |-> head.io \cup rmdses.io]
              ELSE IF rmdses.err # Nil
              THEN [err |-> MDServerError(rmdses.err),
                    recordBranchID |-> FALSE, io |-> head.io \cup rmdses.io]
              ELSE IF Len(rmdses.rmdses) # 1
              THEN [err |-> MDServerError(Err("Expected1MDBlock")),
                    recordBranchID |-> FALSE, io |-> head.io \cup rmdses.io]
              ELSE putCheckHead(rmdses.rmdses[1], rmds, TRUE,
                                head.io \cup rmdses.io) :
                rmdses \in {getRangeReadLocked(currentUID, NullBranchID,
                                               rmds.MD.Revision - 1,
                                               rmds.MD.Revision - 1, fault)}})
       ELSE IF head.rmds # <<>>
       THEN putCheckHead(head.rmds[1], rmds, rmds.MD.MStatus = "Unmerged",
                         head.io)
       ELSE [err |-> Nil, recordBranchID |-> FALSE, io |-> head.io] :
         head \in {getHeadForTLFReadLocked(rmds.MD.BID, fault)}})

\* put, lines 526-562: the comparison head (the branch's head, or for the
\* first put of an unmerged branch the merged revision just before it) and
\* the successor check.
putCheckSuccessor(currentUID, rmds, fault) ==
  The({IF head.err # Nil
       THEN [err |-> MDServerError(head.err), recordBranchID |-> FALSE,
             io |-> head.io]
       ELSE IF rmds.MD.MStatus = "Unmerged" /\ head.rmds = <<>>
       THEN
         The({IF rmdses.err.kind = "panic"
              THEN [err |-> rmdses.err, recordBranchID |-> FALSE,
                    io |-> head.io \cup rmdses.io]
              ELSE IF rmdses.err # Nil
              THEN [err |-> MDServerError(rmdses.err),
                    recordBranchID |-> FALSE, io |-> head.io \cup rmdses.io]
              ELSE IF Len(rmdses.rmdses) # 1
              THEN [err |-> MDServerError(Err("Expected1MDBlock")),
                    recordBranchID |-> FALSE, io |-> head.io \cup rmdses.io]
              ELSE putCheckHead(rmdses.rmdses[1], rmds, TRUE,
                                head.io \cup rmdses.io) :
                rmdses \in {getRangeReadLocked(currentUID, NullBranchID,
                                               rmds.MD.Revision - 1,
                                               rmds.MD.Revision - 1, fault)}})
       ELSE IF head.rmds # <<>>
       THEN putCheckHead(head.rmds[1], rmds, FALSE, head.io)
       ELSE [err |-> Nil, recordBranchID |-> FALSE, io |-> head.io] :
         head \in {getHeadForTLFReadLocked(rmds.MD.BID, fault)}})

\* A put that checks the caller's permission before it validates the
\* metadata.
putChecksGateFirst(currentUID, currentVerifyingKey, rmds, extra0, fault) ==
  The({IF x.err # Nil
       THEN [err |-> x.err, extra |-> x.extra, recordBranchID |-> FALSE,
             io |-> x.io]
       ELSE
         The({IF p.err # Nil
              THEN [err |-> p.err, extra |-> x.extra,
                    recordBranchID |-> FALSE, io |-> x.io \cup p.io]
              ELSE IF ~IsValidAndSigned(rmds, x.extra)
              THEN [err |-> MDServerErrorBadRequest(Err("NotValidAndSigned")),
                    extra |-> x.extra, recordBranchID |-> FALSE,
                    io |-> x.io \cup p.io]
              ELSE IF ~IsLastModifiedBy(rmds, currentUID, currentVerifyingKey)
              THEN [err |-> MDServerErrorBadRequest(Err("NotLastModifiedBy")),
                    extra |-> x.extra, recordBranchID |-> FALSE,
                    io |-> x.io \cup p.io]
              ELSE
                The({[err |-> h.err, extra |-> x.extra,
                      recordBranchID |-> h.recordBranchID,
                      io |-> x.io \cup p.io \cup h.io] :
                       h \in {putCheckSuccessor(currentUID, rmds, fault)}}) :
                p \in {putCheckPermissions(currentUID, rmds, x.extra,
                                           fault)}}) :
         x \in {putResolveExtra(rmds, extra0, fault)}})

\* put, lines 479-562: bundle resolution, validation, permission and
\* successor checks, in the code's order. Nothing is written.
putChecks(currentUID, currentVerifyingKey, rmds, extra0, fault) ==
  The({IF x.err # Nil
       THEN [err |-> x.err, extra |-> x.extra, recordBranchID |-> FALSE,
             io |-> x.io]
       ELSE IF ~IsValidAndSigned(rmds, x.extra)
       THEN [err |-> MDServerErrorBadRequest(Err("NotValidAndSigned")),
             extra |-> x.extra, recordBranchID |-> FALSE, io |-> x.io]
       ELSE IF ~IsLastModifiedBy(rmds, currentUID, currentVerifyingKey)
       THEN [err |-> MDServerErrorBadRequest(Err("NotLastModifiedBy")),
             extra |-> x.extra, recordBranchID |-> FALSE, io |-> x.io]
       ELSE
         The({IF p.err # Nil
              THEN [err |-> p.err, extra |-> x.extra,
                    recordBranchID |-> FALSE, io |-> x.io \cup p.io]
              ELSE
                The({[err |-> h.err, extra |-> x.extra,
                      recordBranchID |-> h.recordBranchID,
                      io |-> x.io \cup p.io \cup h.io] :
                       h \in {putCheckSuccessor(currentUID, rmds, fault)}}) :
                p \in {putCheckPermissions(currentUID, rmds, x.extra,
                                           fault)}}) :
         x \in {putResolveExtra(rmds, extra0, fault)}})

\* A journal step that records the new entry one revision too early.
putJournalOffByOne(rmds, id, fault) ==
  LET bid == rmds.MD.BID
      g == getOrCreateBranchJournalLocked(bid, fault)
      a == append(g.journals[bid], rmds.MD.Revision - 1, id, fault)
  IN IF g.err # Nil
     THEN [err |-> g.err, journals |-> g.journals,
           branchJournals |-> g.branchJournals]
     ELSE IF a.err # Nil
     THEN [err |-> MDServerError(a.err), journals |-> g.journals,
           branchJournals |-> g.branchJournals]
     ELSE [err |-> Nil, journals |-> [g.journals EXCEPT ![bid] = a.j],
           branchJournals |-> g.branchJournals]

\* put, lines 574-582: the branch's journal handle and the new entry.
putJournal(rmds, id, fault) ==
  LET bid == rmds.MD.BID
      g == getOrCreateBranchJournalLocked(bid, fault)
      a == append(g.journals[bid], rmds.MD.Revision, id, fault)
  IN IF g.err # Nil
     THEN [err |-> g.err, journals |-> g.journals,
           branchJournals |-> g.branchJournals]
     ELSE IF a.err # Nil
     THEN [err |-> MDServerError(a.err), journals |-> g.journals,
           branchJournals |-> g.branchJournals]
     ELSE [err |-> Nil, journals |-> [g.journals EXCEPT ![bid] = a.j],
           branchJournals |-> g.branchJournals]

\* put, lines 564-582: the object, the key bundles, then the journal entry.
putPersist(rmds, extra, fault) ==
  The({IF p.err # Nil
       THEN [err |-> MDServerError(p.err), mds |-> mds, wkbs |-> wkbs,
             rkbs |-> rkbs, journals |-> journals,
             branchJournals |-> branchJournals, io |-> p.io]
       ELSE
         The({IF x.err # Nil
              THEN [err |-> IF x.err.kind = "panic" THEN x.err
                            ELSE MDServerError(x.err),
                    mds |-> p.mds, wkbs |-> x.wkbs, rkbs |-> x.rkbs,
                    journals |-> journals, branchJournals |-> branchJournals,
                    io |-> p.io \cup x.io]
              ELSE
                The({[err |-> j.err, mds |-> p.mds, wkbs |-> x.wkbs,
                      rkbs |-> x.rkbs, journals |-> j.journals,
                      branchJournals |-> j.branchJournals,
                      io |-> p.io \cup x.io
                               \cup {<<"journal", rmds.MD.BID>>}] :
                       j \in {putJournal(rmds, p.id, fault)}}) :
                x \in {putExtraMetadataLocked(rmds, extra, fault)}}) :
         p \in {putMDLocked(rmds, fault)}})

put(currentUID, currentVerifyingKey, rmds, extra, fault) ==
  LET same == [mds |-> mds, wkbs |-> wkbs, rkbs |-> rkbs,
               journals |-> journals, branchJournals |-> branchJournals]
  IN IF isShutdownReadLocked
     THEN [recordBranchID |-> FALSE, err |-> errMDServerTlfStorageShutdown,
           io |-> {}] @@ same
     ELSE
       The({IF c.err # Nil
            THEN [recordBranchID |-> FALSE, err |-> c.err, io |-> c.io]
                 @@ same
            ELSE
              The({[recordBranchID |->
                      IF w.err = Nil THEN c.recordBranchID ELSE FALSE,
                    err |-> w.err, mds |-> w.mds, wkbs |-> w.wkbs,
                    rkbs |-> w.rkbs, journals |-> w.journals,
                    branchJournals |-> w.branchJournals,
                    io |-> c.io \cup w.io] :
                     w \in {putPersist(rmds, c.extra, fault)}}) :
              c \in {putChecks(currentUID, currentVerifyingKey, rmds, extra,
                               fault)}})

shutdown == NilMap

\* ------------------------------------------------------------ the calls

Other(uid) == CHOOSE u \in Users : u # uid

NoBundleIDs == [WKBID |-> EmptyID, RKBID |-> EmptyID]

BundleIDs(wkb, rkb) ==
  [WKBID |-> MakeTLFWriterKeyBundleID(wkb),
   RKBID |-> MakeTLFReaderKeyBundleID(rkb)]

\* What a put carries about key bundles: the ids in the metadata and the
\* extra metadata passed along.
BundleShapes ==
  {[name |-> "none", ids |-> NoBundleIDs, extra |-> NoExtra],
   [name |-> "supplied", ids |-> BundleIDs(W1, R2),
    extra |-> ExtraMetadataV3(W1, R2)],
   [name |-> "lookup", ids |-> BundleIDs(W1, R2), extra |-> NoExtra],
   [name |-> "mismatch", ids |-> BundleIDs(W1, R2),
    extra |-> ExtraMetadataV3(W2, R2)],
   [name |-> "onesided",
    ids |-> [WKBID |-> MakeTLFWriterKeyBundleID(W1), RKBID |-> EmptyID],
    extra |-> NoExtra],
   [name |-> "unnamed", ids |-> NoBundleIDs,
    extra |-> ExtraMetadataV3(W1, R2)],
   [name |-> "halfnamed",
    ids |-> [WKBID |-> MakeTLFWriterKeyBundleID(W1), RKBID |-> EmptyID],
    extra |-> ExtraMetadataV3(W1, R2)]}

Targets ==
  {[BID |-> NullBranchID, MStatus |-> "Merged"],
   [BID |-> "b1", MStatus |-> "Unmerged"]}

Shapes == {"good", "rekey", "unsigned", "misattributed"}

MakeMD(rev, target, prev, lm, rekey, ids) ==
  [Revision |-> rev, BID |-> target.BID, MStatus |-> target.MStatus,
   PrevRoot |-> prev, LastModifier |-> lm, RekeyRequest |-> rekey,
   WKBID |-> ids.WKBID, RKBID |-> ids.RKBID]

Sign(md, key, valid) ==
  [MD |-> md, SigInfo |-> [VerifyingKey |-> key, Valid |-> valid],
   untrustedServerTimestamp |-> ZeroTime]

JournalIDs ==
  UNION {{journals[b].entries[i] : i \in DOMAIN journals[b].entries} :
           b \in Branches}

PutRequest(uid, rev, target, prev, shape, b, fault) ==
  LET lm == IF shape = "misattributed" THEN Other(uid) ELSE uid
      md == MakeMD(rev, target, prev, lm, shape = "rekey", b.ids)
  IN [op |-> "put", uid |-> uid, key |-> KeyOf(uid),
      rmds |-> Sign(md, KeyOf(lm), shape # "unsigned"),
      extra |-> b.extra, fault |-> fault]

\* The latest entry of a branch's journal, if it has one.
HeadOf(bid) ==
  LET j == journals[bid]
  IN IF j.entries = <<>> THEN {} ELSE {j.entries[Len(j.entries)]}

\* The merged journal's entry at a revision, if it has one.
MergedAt(rev) ==
  LET j == journals[NullBranchID]
  IN IF j.entries # <<>> /\ j.earliest <= rev /\ rev <= latestRevision(j)
     THEN {j.entries[rev - j.earliest + 1]}
     ELSE {}

\* The predecessor links a client may put in a new revision: none, the
\* target branch's head, or the merged revision just before it.
PrevChoices(bid, rev) == {EmptyID} \cup HeadOf(bid) \cup MergedAt(rev - 1)

BundleShape(name) == CHOOSE b \in BundleShapes : b.name = name

\* What a caller sends on a working disk. To the merged branch: a
\* well-formed put that carries no bundles, new bundles (a writer of the
\* handle only) or the ids of stored ones, a rekey request with new bundles
\* (from a user who is no writer of the handle), or a malformed put
\* (unsigned, signed by someone else, with one bundle id missing). To an
\* unmerged branch: a put without bundles, well-formed or malformed.
WorkingShapes(uid, target) ==
  {<<sh, BundleShape("none")>> : sh \in {"good", "unsigned", "misattributed"}}
  \cup
  (IF target.BID # NullBranchID THEN {}
   ELSE IF uid \in HandleWriters
   THEN {<<"good", BundleShape(n)>> : n \in {"supplied", "lookup", "onesided"}}
        \cup {<<"unsigned", BundleShape("onesided")>>}
   ELSE {<<"rekey", BundleShape("supplied")>>})

\* The storage failures that leave the disk as it was.
CleanFaults == {"readMD", "readJournal", "readKB", "writeMD"}

PutBases ==
  {y \in Users \X Revisions \X Targets \X ({EmptyID} \cup JournalIDs) :
     y[4] \in PrevChoices(y[3].BID, y[2])}

\* The link to the head of a branch (none when the branch is empty).
HeadLink(bid) == IF HeadOf(bid) = {} THEN {EmptyID} ELSE HeadOf(bid)

\* The puts a client may issue: any caller, revision, branch and
\* predecessor link on a working disk; a writer's well-formed put on top of
\* the branch's head on a disk whose reads or object write fail.
PutRequests ==
  {PutRequest(x[1][1], x[1][2], x[1][3], x[1][4], x[2][1], x[2][2], "none") :
     x \in {y \in PutBases \X (Shapes \X BundleShapes) :
              y[2] \in WorkingShapes(y[1][1], y[1][3])}}
  \cup
  UNION {{PutRequest("A", rev, t, prev,  "good",
                     BundleShape(IF t.BID = NullBranchID THEN "lookup"
                                 ELSE "none"), f) :
            prev \in HeadLink(t.BID)} :
           <<rev, t, f>> \in Revisions \X Targets \X CleanFaults}

ReadFaults == {"none", "readMD", "readJournal", "readKB"}

Init ==
  /\ mds = <<>>
  /\ wkbs = <<>>
  /\ rkbs = <<>>
  /\ journals = [b \in Branches |-> EmptyJournal]
  /\ branchJournals = {}
  /\ clock = 1
  /\ pc = "idle"
  /\ req = NoReq
  /\ res = NoRes
  /\ tpc = [t \in Threads |-> "idle"]
  /\ top = [t \in Threads |-> "none"]
  /\ lockW = NoThread
  /\ lockR = {}
  /\ lockPending = {}

Put ==
  /\ pc = "idle"
  /\ \E r \in PutRequests :
       \E o \in {put(r.uid, r.key, r.rmds, r.extra, r.fault)} :
          /\ req' = r
          /\ res' = [err |-> o.err, recordBranchID |-> o.recordBranchID,
                     io |-> o.io]
          /\ mds' = o.mds
          /\ wkbs' = o.wkbs
          /\ rkbs' = o.rkbs
          /\ journals' = o.journals
          /\ branchJournals' = o.branchJournals
  /\ pc' = "returned"
  /\ UNCHANGED <<clock, lockVars>>

\* A getForTLF that opens the journal of the branch it is asked for.
GetForTLFCreatesJournal ==
  /\ pc = "idle"
  /\ \E uid \in Users, bid \in Branches, fault \in ReadFaults :
       \E o \in {getForTLF(uid, bid, fault)} :
          /\ req' = [op |-> "getForTLF", uid |-> uid, bid |-> bid,
                     fault |-> fault]
          /\ res' = [err |-> o.err, rmdses |-> o.rmds, io |-> o.io]
          /\ \E g \in {getOrCreateBranchJournalLocked(bid, fault)} :
               /\ journals' = g.journals
               /\ branchJournals' = g.branchJournals
  /\ pc' = "returned"
  /\ UNCHANGED <<mds, wkbs, rkbs, clock, lockVars>>

GetForTLF ==
  /\ pc = "idle"
  /\ \E uid \in Users, bid \in Branches, fault \in ReadFaults :
       \E o \in {getForTLF(uid, bid, fault)} :
          /\ req' = [op |-> "getForTLF", uid |-> uid, bid |-> bid,
                     fault |-> fault]
          /\ res' = [err |-> o.err, rmdses |-> o.rmds, io |-> o.io]
  /\ pc' = "returned"
  /\ UNCHANGED <<disk, branchJournals, clock, lockVars>>

\* The range reads a client may issue: every [start, stop] and one empty
\* range on a working disk, the whole range on a failing one.
RangeRequests ==
  {[op |-> "getRange", uid |-> uid, bid |-> bid, start |-> w[1],
    stop |-> w[2], fault |-> "none"] :
     uid \in Users, bid \in Branches,
     w \in {v \in Revisions \X Revisions : v[1] <= v[2]} \cup {<<2, 1>>}}
  \cup
  {[op |-> "getRange", uid |-> uid, bid |-> bid, start |-> 1,
    stop |-> MaxRev, fault |-> fault] :
     uid \in Users, bid \in Branches,
     fault \in (ReadFaults \ {"none"}) \cup {"readRange"}}

GetRange ==
  /\ pc = "idle"
  /\ \E r \in RangeRequests :
       \E o \in {getRange(r.uid, r.bid, r.start, r.stop, r.fault)} :
          /\ req' = r
          /\ res' = [err |-> o.err, rmdses |-> o.rmdses, io |-> o.io]
  /\ pc' = "returned"
  /\ UNCHANGED <<disk, branchJournals, clock, lockVars>>

JournalLength ==
  /\ pc = "idle"
  /\ \E bid \in Branches, fault \in {"none", "readJournal"} :
       \E o \in {journalLength(bid, fault)} :
          /\ req' = [op |-> "journalLength", bid |-> bid, fault |-> fault]
          /\ res' = [err |-> o.err, n |-> o.n, io |-> o.io]
  /\ pc' = "returned"
  /\ UNCHANGED <<disk, branchJournals, clock, lockVars>>

GetKeyBundles ==
  /\ pc = "idle"
  /\ \E wkbID \in {EmptyID} \cup WKBIDs, rkbID \in {EmptyID} \cup RKBIDs,
        fault \in {"none", "readKB"} :
       \E o \in {getKeyBundles(wkbID, rkbID, fault)} :
          /\ req' = [op |-> "getKeyBundles", wkbID |-> wkbID,
                     rkbID |-> rkbID, fault |-> fault]
          /\ res' = [err |-> o.err, wkb |-> o.wkb, rkb |-> o.rkb,
                     io |-> o.io]
  /\ pc' = "returned"
  /\ UNCHANGED <<disk, branchJournals, clock, lockVars>>

Shutdown ==
  /\ pc = "idle"
  /\ branchJournals' = shutdown
  /\ req' = [op |-> "shutdown"]
  /\ res' = NoRes
  /\ pc' = "returned"
  /\ UNCHANGED <<disk, clock, lockVars>>

\* The call is over: the client is free to call again.
Return ==
  /\ pc = "returned"
  /\ pc' = "idle"
  /\ req' = NoReq
  /\ res' = NoRes
  /\ UNCHANGED <<disk, branchJournals, clock, lockVars>>

Next ==
  \/ Put
  \/ GetForTLF
  \/ GetRange
  \/ JournalLength
  \/ GetKeyBundles
  \/ Shutdown
  \/ Return

Spec == Init /\ [][Next]_vars

\* ------------------------------------------- put in steps, with crashes

\* A put whose object is written, then its key bundles, then its journal
\* entry; after any step the next one may fail, or the process may die and
\* a new coordinator be made on the same directory.

\* A put that appends the journal entry before it writes anything.
StepAfterAppendFirst(step) ==
  CASE step = "check" -> "append"
    [] step = "append" -> "putMD"
    [] step = "putMD" -> "putExtra"
    [] OTHER -> "returned"

\* The order of put's steps (lines 564, 569, 574-579).
StepAfter(step) ==
  CASE step = "check" -> "putMD"
    [] step = "putMD" -> "putExtra"
    [] step = "putExtra" -> "append"
    [] OTHER -> "returned"

\* Well-formed puts by any caller, without bundles or (a writer's, to the
\* merged branch) with new ones.
StepPutRequests ==
  {PutRequest(y[1], y[2], y[3], y[4], "good", BundleShape("none"), "none") :
     y \in PutBases}
  \cup
  {PutRequest(y[1], y[2], y[3], y[4], "good", BundleShape("supplied"),
              "none") :
     y \in {z \in PutBases : z[1] \in HandleWriters
                               /\ z[3].BID = NullBranchID}}

PutStart ==
  /\ pc = "idle"
  /\ Cardinality(DOMAIN mds) < MaxObjects
  /\ \E r \in StepPutRequests :
       \E c \in {putChecks(r.uid, r.key, r.rmds, r.extra, r.fault)} :
         /\ req' = [op |-> "put", uid |-> r.uid, key |-> r.key,
                    rmds |-> r.rmds, extra |-> c.extra, fault |-> r.fault,
                    id |-> EmptyID]
         /\ res' = [err |-> IF isShutdownReadLocked
                            THEN errMDServerTlfStorageShutdown ELSE c.err]
         /\ pc' = IF isShutdownReadLocked \/ c.err # Nil THEN "returned"
                  ELSE StepAfter("check")
  /\ UNCHANGED <<disk, branchJournals, clock, lockVars>>

PutStepMD ==
  /\ pc = "putMD"
  /\ \E fault \in {"none", "readMD", "writeMD"} :
       \E p \in {putMDLocked(req.rmds, fault)} :
         /\ mds' = p.mds
         /\ req' = [req EXCEPT !.id = p.id]
         /\ res' = [err |-> IF p.err = Nil THEN Nil ELSE MDServerError(p.err)]
         /\ pc' = IF p.err # Nil THEN "returned" ELSE StepAfter("putMD")
  /\ UNCHANGED <<wkbs, rkbs, journals, branchJournals, clock, lockVars>>

PutStepExtra ==
  /\ pc = "putExtra"
  /\ \E fault \in {"none", "writeWKB", "writeRKB"} :
       \E x \in {putExtraMetadataLocked(req.rmds, req.extra, fault)} :
         /\ wkbs' = x.wkbs
         /\ rkbs' = x.rkbs
         /\ res' = [err |-> IF x.err = Nil \/ x.err.kind = "panic" THEN x.err
                            ELSE MDServerError(x.err)]
         /\ pc' = IF x.err # Nil THEN "returned" ELSE StepAfter("putExtra")
  /\ UNCHANGED <<mds, journals, branchJournals, clock, lockVars, req>>

PutStepAppend ==
  /\ pc = "append"
  /\ \E fault \in {"none", "mkdir", "append"} :
       \E j \in {putJournal(req.rmds, req.id, fault)} :
         /\ journals' = j.journals
         /\ branchJournals' = j.branchJournals
         /\ res' = [err |-> j.err]
         /\ pc' = IF j.err # Nil THEN "returned" ELSE StepAfter("append")
  /\ UNCHANGED <<mds, wkbs, rkbs, clock, lockVars, req>>

\* s.clock.Now() advances.
Tick ==
  /\ pc = "idle"
  /\ clock < MaxClock
  /\ clock' = clock + 1
  /\ UNCHANGED <<disk, branchJournals, pc, req, res, lockVars>>

\* The process dies wherever it is; makeMDServerTlfStorage is called again
\* on the directory.
Crash ==
  /\ branchJournals' = {}
  /\ pc' = "idle"
  /\ req' = NoReq
  /\ res' = NoRes
  /\ UNCHANGED <<disk, clock, lockVars>>

NextCrash ==
  \/ PutStart
  \/ PutStepMD
  \/ PutStepExtra
  \/ PutStepAppend
  \/ Return
  \/ Crash

SpecCrash == Init /\ [][NextCrash]_vars

\* ------------------------------- put in steps, with crashes and a clock

\* The writer's well-formed puts without bundles.
WriterPutRequests ==
  {r \in StepPutRequests : r.uid \in HandleWriters /\ r.extra = NoExtra}

PutStartByWriter ==
  /\ pc = "idle"
  /\ Cardinality(DOMAIN mds) < MaxObjects
  /\ \E r \in WriterPutRequests :
       \E c \in {putChecks(r.uid, r.key, r.rmds, r.extra, r.fault)} :
         /\ req' = [op |-> "put", uid |-> r.uid, key |-> r.key,
                    rmds |-> r.rmds, extra |-> c.extra, fault |-> r.fault,
                    id |-> EmptyID]
         /\ res' = [err |-> IF isShutdownReadLocked
                            THEN errMDServerTlfStorageShutdown ELSE c.err]
         /\ pc' = IF isShutdownReadLocked \/ c.err # Nil THEN "returned"
                  ELSE StepAfter("check")
  /\ UNCHANGED <<disk, branchJournals, clock, lockVars>>

\* The writer's puts in steps, with failures and restarts, while the clock
\* moves: a put that is tried again finds its object stored at an earlier
\* time.
NextClock ==
  \/ PutStartByWriter
  \/ PutStepMD
  \/ PutStepExtra
  \/ PutStepAppend
  \/ Return
  \/ Tick
  \/ Crash

SpecClock == Init /\ [][NextClock]_vars

\* ------------------------------ put in steps, with every kind of bundles

\* The writer's well-formed puts to the merged branch, with every way of
\* naming and passing key bundles.
BundlePutRequests ==
  {PutRequest(y[1], y[2], y[3], y[4], "good", b, "none") :
     y \in {z \in PutBases : z[1] \in HandleWriters
                               /\ z[3].BID = NullBranchID},
     b \in BundleShapes}

PutStartWithBundles ==
  /\ pc = "idle"
  /\ Cardinality(DOMAIN mds) < MaxObjects
  /\ \E r \in BundlePutRequests :
       \E c \in {putChecks(r.uid, r.key, r.rmds, r.extra, r.fault)} :
         /\ req' = [op |-> "put", uid |-> r.uid, key |-> r.key,
                    rmds |-> r.rmds, extra |-> c.extra, fault |-> r.fault,
                    id |-> EmptyID]
         /\ res' = [err |-> IF isShutdownReadLocked
                            THEN errMDServerTlfStorageShutdown ELSE c.err]
         /\ pc' = IF isShutdownReadLocked \/ c.err # Nil THEN "returned"
                  ELSE StepAfter("check")
  /\ UNCHANGED <<disk, branchJournals, clock, lockVars>>

NextBundles ==
  \/ PutStartWithBundles
  \/ PutStepMD
  \/ PutStepExtra
  \/ PutStepAppend
  \/ Return
  \/ Crash

SpecBundles == Init /\ [][NextBundles]_vars

\* ---------------------------------- a coordinator made again on its directory

\* A put while the object store holds fewer than MaxObjects objects.
PutBounded ==
  /\ Cardinality(DOMAIN mds) < MaxObjects
  /\ Put

\* Puts and reads of a coordinator, and a new coordinator made on the
\* directory the last one worked on (after a shutdown, or after the process
\* died).
NextReopen ==
  \/ PutBounded
  \/ GetForTLF
  \/ GetRange
  \/ JournalLength
  \/ Return
  \/ Crash

SpecReopen == Init /\ [][NextReopen]_vars

\* ------------------------------------------------------ the lock (s.lock)

LockOps ==
  {"put", "shutdown", "getKeyBundles", "journalLength", "getForTLF",
   "getRange"}

\* A getKeyBundles that takes the lock shared.
LockModeSharedKeyBundles(op) ==
  IF op \in {"journalLength", "getForTLF", "getRange", "getKeyBundles"}
  THEN "RLock" ELSE "Lock"

\* How each operation takes s.lock (lines 419, 436, 458, 472, 590, 596).
LockMode(op) ==
  IF op \in {"journalLength", "getForTLF", "getRange"} THEN "RLock"
  ELSE "Lock"

\* A thread calls an operation; a writer announces itself, which keeps new
\* readers out until it has had the lock.
Call(t) ==
  /\ tpc[t] = "idle"
  /\ \E op \in LockOps :
       /\ top' = [top EXCEPT ![t] = op]
       /\ lockPending' = IF LockMode(op) = "Lock" THEN lockPending \cup {t}
                         ELSE lockPending
  /\ tpc' = [tpc EXCEPT ![t] = "waiting"]
  /\ UNCHANGED <<disk, branchJournals, clock, pc, req, res, lockW, lockR>>

\* s.lock.RLock() returns.
EnterShared(t) ==
  /\ tpc[t] = "waiting"
  /\ LockMode(top[t]) = "RLock"
  /\ lockW = NoThread
  /\ lockPending = {}
  /\ lockR' = lockR \cup {t}
  /\ tpc' = [tpc EXCEPT ![t] = "in"]
  /\ UNCHANGED <<disk, branchJournals, clock, pc, req, res, top, lockW,
                 lockPending>>

\* s.lock.Lock() returns.
EnterExclusive(t) ==
  /\ tpc[t] = "waiting"
  /\ LockMode(top[t]) = "Lock"
  /\ lockW = NoThread
  /\ lockR = {}
  /\ lockW' = t
  /\ lockPending' = lockPending \ {t}
  /\ tpc' = [tpc EXCEPT ![t] = "in"]
  /\ UNCHANGED <<disk, branchJournals, clock, pc, req, res, top, lockR>>

\* The deferred s.lock.RUnlock() or s.lock.Unlock().
Leave(t) ==
  /\ tpc[t] = "in"
  /\ lockW' = IF lockW = t THEN NoThread ELSE lockW
  /\ lockR' = lockR \ {t}
  /\ tpc' = [tpc EXCEPT ![t] = "idle"]
  /\ top' = [top EXCEPT ![t] = "none"]
  /\ UNCHANGED <<disk, branchJournals, clock, pc, req, res, lockPending>>

NextLock ==
  \/ \E t \in Threads : Call(t)
  \/ \E t \in Threads : EnterShared(t)
  \/ \E t \in Threads : EnterExclusive(t)
  \/ \E t \in Threads : Leave(t)

SpecLock == Init /\ [][NextLock]_vars

\* ------------------------------- calls from lock to unlock, step by step
\*
\* s.lock is a sync.RWMutex.  Lock() first takes the writers' mutex, then
\* announces the writer (readers that call RLock() from then on block) and
\* waits for the readers that hold the lock to leave.  Unlock() lets the
\* readers that blocked meanwhile in, all at once, and gives the writers'
\* mutex back.  lockPending holds the announced writer, and tpc[t] is
\* "waiting" (called, not yet at the lock), "announced", "blocked", "in"
\* (holds the lock, body not yet run), "ran" (body done, deferred unlock
\* next) or "idle".

\* A put whose bootstrap check reads the range through the public getRange,
\* which takes s.lock itself.
NestedLockPutCallsGetRange(op) ==
  IF op = "put" THEN "RLock" ELSE "none"

\* The lock an operation takes while it already holds s.lock: none.  The
\* bodies call only ...Locked / ...ReadLocked methods; put's bootstrap check
\* calls getRangeReadLocked (line 537), not getRange.
NestedLock(op) == "none"

\* A thread calls an operation.
Invoke(t) ==
  /\ tpc[t] = "idle"
  /\ \E op \in LockOps : top' = [top EXCEPT ![t] = op]
  /\ tpc' = [tpc EXCEPT ![t] = "waiting"]
  /\ UNCHANGED <<disk, branchJournals, clock, pc, req, res, lockW, lockR,
                 lockPending>>

\* s.lock.RLock(): straight in when no writer has announced itself or holds
\* the lock, blocked behind that writer otherwise.
RLock(t) ==
  /\ tpc[t] = "waiting"
  /\ LockMode(top[t]) = "RLock"
  /\ IF lockW = NoThread /\ lockPending = {}
     THEN /\ lockR' = lockR \cup {t}
          /\ tpc' = [tpc EXCEPT ![t] = "in"]
     ELSE /\ lockR' = lockR
          /\ tpc' = [tpc EXCEPT ![t] = "blocked"]
  /\ UNCHANGED <<disk, branchJournals, clock, pc, req, res, top, lockW,
                 lockPending>>

\* s.lock.Lock(), first half: the writers' mutex is free, the writer takes
\* it and announces itself.
Announce(t) ==
  /\ tpc[t] = "waiting"
  /\ LockMode(top[t]) = "Lock"
  /\ lockW = NoThread
  /\ lockPending = {}
  /\ lockPending' = {t}
  /\ tpc' = [tpc EXCEPT ![t] = "announced"]
  /\ UNCHANGED <<disk, branchJournals, clock, pc, req, res, top, lockW,
                 lockR>>

\* s.lock.Lock(), second half: the readers that held the lock have left.
Lock(t) ==
  /\ tpc[t] = "announced"
  /\ lockR = {}
  /\ lockW' = t
  /\ lockPending' = {}
  /\ tpc' = [tpc EXCEPT ![t] = "in"]
  /\ UNCHANGED <<disk, branchJournals, clock, pc, req, res, top, lockR>>

\* The body of the operation, to whichever return, error return or panic it
\* ends in.  A body that takes s.lock again gets it only as any other caller
\* would.
Body(t) ==
  /\ tpc[t] = "in"
  /\ \/ NestedLock(top[t]) = "none"
     \/ /\ NestedLock(top[t]) = "RLock"
        /\ lockW = NoThread
        /\ lockPending = {}
  /\ tpc' = [tpc EXCEPT ![t] = "ran"]
  /\ UNCHANGED <<disk, branchJournals, clock, pc, req, res, top, lockW,
                 lockR, lockPending>>

\* The deferred s.lock.RUnlock() (lines 420, 437, 459) or s.lock.Unlock()
\* (lines 473, 591, 597), and the return.  Unlock() lets the blocked readers
\* in.
Unlock(t) ==
  /\ tpc[t] = "ran"
  /\ IF lockW = t
     THEN /\ lockW' = NoThread
          /\ lockR' = {u \in Threads : tpc[u] = "blocked"}
          /\ tpc' = [u \in Threads |->
                       IF u = t THEN "idle"
                       ELSE IF tpc[u] = "blocked" THEN "in"
                       ELSE tpc[u]]
     ELSE /\ lockW' = lockW
          /\ lockR' = lockR \ {t}
          /\ tpc' = [tpc EXCEPT ![t] = "idle"]
  /\ top' = [top EXCEPT ![t] = "none"]
  /\ UNCHANGED <<disk, branchJournals, clock, pc, req, res, lockPending>>

NextRW ==
  \/ \E t \in Threads : Invoke(t)
  \/ \E t \in Threads : RLock(t)
  \/ \E t \in Threads : Announce(t)
  \/ \E t \in Threads : Lock(t)
  \/ \E t \in Threads : Body(t)
  \/ \E t \in Threads : Unlock(t)

\* What the scheduler gives: a goroutine that can run does run (the body
\* ends, the deferred unlock runs, RLock() is reached, a writer whose readers
\* have left gets the lock), and a writer that finds the writers' mutex free
\* again and again gets it in the end.  Nobody has to call anything.
FairRW ==
  \A t \in Threads :
    /\ WF_vars(RLock(t))
    /\ SF_vars(Announce(t))
    /\ WF_vars(Lock(t))
    /\ WF_vars(Body(t))
    /\ WF_vars(Unlock(t))

SpecRW == Init /\ [][NextRW]_vars /\ FairRW

\* ------------------------------------------------ the object store alone

StoreMDs ==
  {MakeMD(rev, [BID |-> NullBranchID, MStatus |-> "Merged"], EmptyID, "A",
          FALSE, NoBundleIDs) : rev \in Revisions}

\* Signed objects: each metadata signed with either user's key, or with a
\* signature that does not verify.
StoreObjects ==
  {Sign(md, KeyOf(u), TRUE) : md \in StoreMDs, u \in Users}
  \cup {Sign(md, KeyOf("A"), FALSE) : md \in StoreMDs}

StorePut ==
  /\ pc = "idle"
  /\ \E o \in StoreObjects, fault \in {"none", "readMD", "writeMD"} :
       \E p \in {putMDLocked(o, fault)} :
         /\ req' = [op |-> "putMD", rmds |-> o, fault |-> fault]
         /\ res' = [err |-> p.err, id |-> p.id, io |-> p.io]
         /\ mds' = p.mds
  /\ pc' = "returned"
  /\ UNCHANGED <<wkbs, rkbs, journals, branchJournals, clock, lockVars>>

StoreGet ==
  /\ pc = "idle"
  /\ \E md \in StoreMDs, fault \in {"none", "readMD"} :
       \E g \in {getMDReadLocked(MakeMdID(md), fault)} :
         /\ req' = [op |-> "getMD", id |-> MakeMdID(md), fault |-> fault]
         /\ res' = [err |-> g.err, rmds |-> g.rmds, io |-> g.io]
  /\ pc' = "returned"
  /\ UNCHANGED <<disk, branchJournals, clock, lockVars>>

NextStore ==
  \/ StorePut
  \/ StoreGet
  \/ Tick
  \/ Return

SpecStore == Init /\ [][NextStore]_vars

\* --------------------------------------------- the key-bundle store alone

\* A directory whose bundle files hold any bundle, the one its name is the
\* id of or another one.
InitKB ==
  /\ mds = <<>>
  /\ wkbs \in UNION {[D -> WKBs] : D \in SUBSET WKBIDs}
  /\ rkbs \in UNION {[D -> RKBs] : D \in SUBSET RKBIDs}
  /\ journals = [b \in Branches |-> EmptyJournal]
  /\ branchJournals = {}
  /\ clock = 1
  /\ pc = "idle"
  /\ req = NoReq
  /\ res = NoRes
  /\ tpc = [t \in Threads |-> "idle"]
  /\ top = [t \in Threads |-> "none"]
  /\ lockW = NoThread
  /\ lockR = {}
  /\ lockPending = {}

NextKB ==
  \/ GetKeyBundles
  \/ Return

SpecKB == InitKB /\ [][NextKB]_vars

\* ------------------------------------------------- what the claims speak of

\* The metadata of a stored object.
ObjectMD(id) ==
  DecodeRootMetadataSigned(mds[id].EncodedRMDS, mds[id].Timestamp).MD

\* The metadata at the head of the merged history (no element: no head).
MergedHeadMDs == {ObjectMD(id) : id \in HeadOf(NullBranchID)}

\* The key bundles a metadata object references, as stored.
ExtraOf(md) ==
  IF md.WKBID = EmptyID \/ md.RKBID = EmptyID THEN NoExtra
  ELSE ExtraMetadataV3(wkbs[md.WKBID], rkbs[md.RKBID])

\* A put that the steps before the permission check let through: the disk
\* works, the bundles the metadata names are passed along or stored, the
\* object is signed, and signed by the caller.
WellFormed(r) ==
  /\ r.fault = "none"
  /\ \/ r.extra # NoExtra
     \/ r.rmds.MD.WKBID = EmptyID /\ r.rmds.MD.RKBID = EmptyID
     \/ r.rmds.MD.WKBID \in DOMAIN wkbs /\ r.rmds.MD.RKBID \in DOMAIN rkbs
  /\ r.rmds.SigInfo.Valid
  /\ r.rmds.MD.LastModifier = r.uid
  /\ r.rmds.SigInfo.VerifyingKey = r.key

\* The caller of a put is a writer of the merged head, or a reader of it
\* asking for a rekey (true when there is no merged head).
Authorized(r) ==
  \A m \in MergedHeadMDs :
    isWriterOrValidRekey(r.uid, m, r.rmds.MD, ExtraOf(m), r.extra)

\* The head a put is compared with: the latest entry of its branch, or for
\* a new unmerged branch the merged entry one revision before it.
CmpHeads(md) ==
  IF HeadOf(md.BID) # {} THEN {ObjectMD(id) : id \in HeadOf(md.BID)}
  ELSE IF md.MStatus = "Unmerged"
  THEN {ObjectMD(id) : id \in MergedAt(md.Revision - 1)}
  ELSE {}

\* A step that is a put called on a coordinator that is not shut down.
PutCall == pc = "idle" /\ req'.op = "put" /\ branchJournals # NilMap

\* Every entry of every journal is an object whose revision is the one of
\* its place in the journal.
Contiguous ==
  \A b \in Branches :
    \A i \in DOMAIN journals[b].entries :
      /\ journals[b].entries[i] \in DOMAIN mds
      /\ ObjectMD(journals[b].entries[i]).Revision
           = journals[b].earliest + i - 1

\* ---------------------------------------------------------------- claims

\* C1: once shutdown has completed, every operation (put, getForTLF,
\* getRange, journalLength, getKeyBundles) returns the shutdown error and
\* touches no file.
C1_ShutdownFailsEveryCall ==
  (pc = "returned" /\ req.op # "shutdown" /\ branchJournals = NilMap)
    => res.err = errMDServerTlfStorageShutdown /\ res.io = {}

\* C2: when the merged history has a head, getForTLF and getRange by a
\* caller who is no reader of that head return no metadata and an error,
\* which on a working disk is Unauthorized, whatever branch is asked for;
\* when the merged history has no head, no caller is refused.
C2_ReadsNeedAReader ==
  (pc = "returned" /\ req.op \in {"getForTLF", "getRange"}
     /\ branchJournals # NilMap)
    => /\ \A m \in MergedHeadMDs :
            ~isReader(req.uid, m, ExtraOf(m))
              => /\ res.rmdses = <<>>
                 /\ res.err # Nil
                 /\ req.fault = "none" => res.err = MDServerErrorUnauthorized
       /\ MergedHeadMDs = {}
            => /\ res.err # MDServerErrorUnauthorized
               /\ req.fault = "none" => res.err = Nil

\* C2's case: a caller who is no reader of the merged head asks for the
\* head of an unmerged branch that exists, and is refused.
C2_Witness ==
  /\ pc = "returned"
  /\ req.op = "getForTLF"
  /\ req.bid = "b1"
  /\ journals["b1"].entries # <<>>
  /\ res.err = MDServerErrorUnauthorized

\* C3: when the merged history has a head, a put by a caller who is neither
\* a writer of it nor a reader asking for a rekey fails and changes no
\* store, no journal and not the journal map, whatever branch it targets,
\* and the error is Unauthorized when the put is well-formed; when the
\* merged history has no head no put is refused as unauthorized.
C3_PutsNeedAWriter ==
  [][PutCall =>
       /\ ~Authorized(req')
            => /\ res'.err # Nil
               /\ UNCHANGED <<mds, wkbs, rkbs, journals, branchJournals>>
               /\ WellFormed(req') => res'.err = MDServerErrorUnauthorized
       /\ MergedHeadMDs = {} => res'.err # MDServerErrorUnauthorized]_vars

\* C3's case: a well-formed put to an unmerged branch by a caller who is no
\* writer of the merged head has been refused.
C3_Witness ==
  /\ pc = "returned"
  /\ req.op = "put"
  /\ req.uid = "B"
  /\ req.rmds.MD.BID = "b1"
  /\ req.rmds.SigInfo.Valid
  /\ req.rmds.MD.LastModifier = "B"
  /\ res.err = MDServerErrorUnauthorized

\* C4: a put that is not a valid successor of its comparison head fails and
\* leaves the object store, the key-bundle store, every journal and the
\* journal map as they were; a well-formed put by an authorized caller
\* fails with the successor error.
C4_SuccessorOrNothing ==
  [][PutCall =>
       \A h \in CmpHeads(req'.rmds.MD) :
         ~CheckValidSuccessorForServer(h, MakeMdID(h), req'.rmds.MD)
           => /\ res'.err # Nil
              /\ UNCHANGED <<mds, wkbs, rkbs, journals, branchJournals>>
              /\ (WellFormed(req') /\ Authorized(req'))
                   => res'.err = Err("InvalidSuccessor")]_vars

\* C4's case: the first put of an unmerged branch names the merged entry
\* before it with the wrong predecessor link, and is rejected.
C4_Witness ==
  /\ pc = "returned"
  /\ req.op = "put"
  /\ req.rmds.MD.BID = "b1"
  /\ journals["b1"].entries = <<>>
  /\ MergedAt(req.rmds.MD.Revision - 1) # {}
  /\ req.rmds.MD.PrevRoot \notin MergedAt(req.rmds.MD.Revision - 1)
  /\ res.err = Err("InvalidSuccessor")

\* C5: the revisions in every journal are contiguous; a successful put to a
\* branch with a head appends exactly one entry, of revision latest + 1,
\* and a put of any other revision to such a branch fails and appends
\* nothing.
C5_ContiguousRevisions ==
  [][/\ Contiguous'
     /\ (PutCall /\ journals[req'.rmds.MD.BID].entries # <<>>)
          => IF res'.err = Nil
             THEN /\ req'.rmds.MD.Revision
                       = latestRevision(journals[req'.rmds.MD.BID]) + 1
                  /\ journals'
                       = [journals EXCEPT ![req'.rmds.MD.BID].entries =
                            Append(@, MakeMdID(req'.rmds.MD))]
             ELSE journals' = journals
     /\ (PutCall /\ journals[req'.rmds.MD.BID].entries # <<>>
           /\ req'.rmds.MD.Revision
                # latestRevision(journals[req'.rmds.MD.BID]) + 1)
          => res'.err # Nil]_vars

\* C5's case: a well-formed put by a writer, linked to the head, skips one
\* revision (latest + 2) and is rejected.
C5_Witness ==
  /\ pc = "returned"
  /\ req.op = "put"
  /\ res.err # Nil
  /\ req.uid = "A"
  /\ WellFormed(req)
  /\ req.rmds.MD.PrevRoot \in HeadOf(req.rmds.MD.BID)
  /\ req.rmds.MD.Revision
       = latestRevision(journals[req.rmds.MD.BID]) + 2

\* C6: with put run as its steps and a failure or a crash possible after
\* each, every entry of every journal is the id of an object in dir/mds.
C6_EntriesHaveObjects ==
  \A b \in Branches :
    \A i \in DOMAIN journals[b].entries :
      journals[b].entries[i] \in DOMAIN mds

\* C6's case: a new coordinator on a directory whose merged journal has
\* entries and whose object store holds an object no journal names (a put
\* stopped between the object and the journal entry).
C6_Witness ==
  /\ pc = "idle"
  /\ branchJournals = {}
  /\ journals[NullBranchID].entries # <<>>
  /\ DOMAIN mds \ JournalIDs # {}

\* The operations that take s.lock exclusively, as the spec lists them.
Exclusive(op) == op \in {"put", "shutdown", "getKeyBundles"}

\* C7: while a put, shutdown or getKeyBundles is inside its critical
\* section no other call is inside its own; getForTLF, getRange and
\* journalLength calls may be inside theirs together.
C7_WritersAlone ==
  \A t \in Threads :
    (tpc[t] = "in" /\ Exclusive(top[t]))
      => \A u \in Threads \ {t} : tpc[u] # "in"

\* C7's case: three readers, one of each kind, inside their critical
\* sections at once.
C7_Witness ==
  /\ \A t \in Threads : tpc[t] = "in"
  /\ {top[t] : t \in Threads} = {"getForTLF", "getRange", "journalLength"}

\* What getMDReadLocked returns for the id a putMDLocked just returned.
ReadBack == getMDReadLocked(res.id, "none")

\* A step that is a putMDLocked.
StorePutCall == pc = "idle" /\ req'.op = "putMD"

\* C8 as stated: putMDLocked(o) returns the hash of o's metadata, and
\* getMDReadLocked of that id succeeds and returns o (its metadata and its
\* signature).
C8_RoundTripAsStated ==
  (pc = "returned" /\ req.op = "putMD" /\ res.err = Nil)
    => /\ res.id = MakeMdID(req.rmds.MD)
       /\ ReadBack.err = Nil
       /\ ReadBack.rmds[1].MD = req.rmds.MD
       /\ ReadBack.rmds[1].SigInfo = req.rmds.SigInfo

\* C8, amended: putMDLocked(o) returns the hash of o's metadata, and
\* getMDReadLocked of that id succeeds and returns an object with o's
\* metadata; it is the object stored under that id before the call when
\* there was one, and otherwise o with the time of the call as its server
\* timestamp.
C8_RoundTripOfMetadata ==
  [][(StorePutCall /\ res'.err = Nil) =>
       /\ res'.id = MakeMdID(req'.rmds.MD)
       /\ ReadBack'.err = Nil
       /\ ReadBack'.rmds[1].MD = req'.rmds.MD
       /\ IF MakeMdID(req'.rmds.MD) \in DOMAIN mds
          THEN ReadBack'.rmds
                 = getMDReadLocked(MakeMdID(req'.rmds.MD), "none").rmds
          ELSE ReadBack'.rmds
                 = <<[req'.rmds EXCEPT !.untrustedServerTimestamp = clock]>>
    ]_vars

\* C8's case: an object is put whose metadata is stored with another
\* signature; the put succeeds and the stored signature stays.
C8_Witness ==
  /\ pc = "returned"
  /\ req.op = "putMD"
  /\ res.err = Nil
  /\ ReadBack.err = Nil
  /\ ReadBack.rmds[1].SigInfo # req.rmds.SigInfo

\* C9: putMDLocked of a payload that is stored writes nothing (the file,
\* its timestamp included, stays the one of the first call, and no file is
\* added) and, unless the read of the stored file fails, returns the id the
\* payload is stored under.
C9_StoreOnce ==
  [][(StorePutCall
        /\ MakeMdID(req'.rmds.MD) \in DOMAIN mds
        /\ mds[MakeMdID(req'.rmds.MD)].EncodedRMDS
             = EncodeRootMetadataSigned(req'.rmds))
       => /\ mds' = mds
          /\ req'.fault # "readMD"
               => res'.err = Nil /\ res'.id = MakeMdID(req'.rmds.MD)
    ]_vars

\* C9's case: a payload is put again after the clock has advanced, and the
\* file still carries the time of the first put.
C9_Witness ==
  /\ pc = "returned"
  /\ req.op = "putMD"
  /\ res.err = Nil
  /\ mds[res.id].EncodedRMDS = EncodeRootMetadataSigned(req.rmds)
  /\ mds[res.id].Timestamp < clock

\* C10: getKeyBundles with exactly one id empty fails; with both empty it
\* returns no bundles, no error, and reads no file; with both non-empty and
\* both files readable it returns the stored pair when each stored bundle's
\* id is the id asked for, and an integrity error and no bundle otherwise.
C10_KeyBundleLookup ==
  (pc = "returned" /\ req.op = "getKeyBundles")
    => IF (req.wkbID = EmptyID) # (req.rkbID = EmptyID)
       THEN res.err = Err("EmptyMismatch") /\ res.wkb = <<>> /\ res.rkb = <<>>
       ELSE IF req.wkbID = EmptyID
       THEN res.err = Nil /\ res.wkb = <<>> /\ res.rkb = <<>> /\ res.io = {}
       ELSE IF req.fault = "none" /\ req.wkbID \in DOMAIN wkbs
                 /\ req.rkbID \in DOMAIN rkbs
       THEN IF /\ MakeTLFWriterKeyBundleID(wkbs[req.wkbID]) = req.wkbID
               /\ MakeTLFReaderKeyBundleID(rkbs[req.rkbID]) = req.rkbID
            THEN /\ res.err = Nil
                 /\ res.wkb = <<wkbs[req.wkbID]>>
                 /\ res.rkb = <<rkbs[req.rkbID]>>
            ELSE /\ res.err \in {Err("WKBIDMismatch"), Err("RKBIDMismatch")}
                 /\ res.wkb = <<>>
                 /\ res.rkb = <<>>
       ELSE res.err # Nil /\ res.wkb = <<>> /\ res.rkb = <<>>

\* C10's case: the writer bundle stored is the one asked for, the reader
\* bundle file holds another bundle, and the lookup reports it.
C10_Witness ==
  /\ pc = "returned"
  /\ req.op = "getKeyBundles"
  /\ req.fault = "none"
  /\ req.wkbID \in DOMAIN wkbs
  /\ req.rkbID \in DOMAIN rkbs
  /\ MakeTLFWriterKeyBundleID(wkbs[req.wkbID]) = req.wkbID
  /\ MakeTLFReaderKeyBundleID(rkbs[req.rkbID]) # req.rkbID
  /\ res.err = Err("RKBIDMismatch")

\* No branch has a journal entry.
NoHistory == \A b \in Branches : journals[b].entries = <<>>

\* A put to the merged branch.
ToMerged(r) ==
  r.rmds.MD.BID = NullBranchID /\ r.rmds.MD.MStatus = "Merged"

\* The merged history is one entry, revision 1, written by A.
OnlyRevision1ByA ==
  /\ Len(journals[NullBranchID].entries) = 1
  /\ journals[NullBranchID].earliest = 1
  /\ journals[NullBranchID].entries[1] \in DOMAIN mds
  /\ ObjectMD(journals[NullBranchID].entries[1]).LastModifier = "A"

\* What journalLength of the merged branch returns on a working disk.
MergedLength == journalLength(NullBranchID, "none")

\* What getRange(1, 2) of the merged branch returns to A on a working disk.
MergedRange12 == getRange("A", NullBranchID, 1, 2, "none")

\* C11: on a namespace without history a well-formed put of revision 1 to
\* the merged branch by A succeeds; with that revision as the whole merged
\* history, a put of revision 2 by B, who is neither a writer of revision 1
\* nor making a valid rekey, returns Unauthorized and changes nothing, and a
\* well-formed put of revision 2 by A that names revision 1 as its
\* predecessor succeeds, after which journalLength of the merged branch is 2
\* and getRange(1, 2) returns revision 1 and revision 2 in that order.
C11_BootstrapScenario ==
  [][(PutCall /\ ToMerged(req') /\ WellFormed(req')) =>
       /\ (NoHistory /\ req'.uid = "A" /\ req'.rmds.MD.Revision = 1)
            => /\ res'.err = Nil
               /\ journals'[NullBranchID].entries
                    = <<MakeMdID(req'.rmds.MD)>>
       /\ (OnlyRevision1ByA /\ req'.uid = "B"
             /\ req'.rmds.MD.Revision = 2 /\ ~Authorized(req'))
            => /\ res'.err = MDServerErrorUnauthorized
               /\ UNCHANGED <<mds, wkbs, rkbs, journals, branchJournals>>
       /\ (OnlyRevision1ByA /\ req'.uid = "A"
             /\ req'.rmds.MD.Revision = 2
             /\ req'.rmds.MD.PrevRoot = journals[NullBranchID].entries[1])
            => /\ res'.err = Nil
               /\ MergedLength'.err = Nil
               /\ MergedLength'.n = 2
               /\ MergedRange12'.err = Nil
               /\ Len(MergedRange12'.rmdses) = 2
               /\ MergedRange12'.rmdses[1].MD
                    = ObjectMD(journals[NullBranchID].entries[1])
               /\ MergedRange12'.rmdses[2].MD = req'.rmds.MD
    ]_vars

\* C11's case: A's revision 2 has just been accepted on top of A's
\* revision 1, and the range read returns both.
C11_Witness ==
  /\ pc = "returned"
  /\ req.op = "put"
  /\ req.uid = "A"
  /\ res.err = Nil
  /\ req.rmds.MD.Revision = 2
  /\ journals[NullBranchID].earliest = 1
  /\ Len(journals[NullBranchID].entries) = 2
  /\ ObjectMD(journals[NullBranchID].entries[1]).LastModifier = "A"
  /\ Len(MergedRange12.rmdses) = 2

\* The coordinator is not shut down.
Open == branchJournals # NilMap

\* The caller is a reader of the merged head (true when there is none).
PassesReaderGate(uid) ==
  \A m \in MergedHeadMDs : isReader(uid, m, ExtraOf(m))

\* The metadata of the object the latest entry of a branch names.
LatestMDs(bid) == {ObjectMD(id) : id \in HeadOf(bid)}

\* A step that is a successful put to the branch.
PutTo(bid) == PutCall /\ res'.err = Nil /\ req'.rmds.MD.BID = bid

\* C12: on an open coordinator and a working disk getForTLF by a caller who
\* is a reader of the merged head returns no error and the object the
\* branch's latest entry names, and returns no object exactly when the
\* branch has no entry; that object has the metadata of the most recent
\* successful put to the branch: a successful put makes its own metadata
\* the latest, and no other step changes the latest metadata or removes it.
C12_HeadIsLatestPut ==
  [][\A b \in Branches :
       /\ \A u \in Users :
            (pc' = "returned" /\ req'.op = "getForTLF" /\ req'.fault = "none"
               /\ req'.uid = u /\ req'.bid = b /\ Open'
               /\ PassesReaderGate(u)')
              => /\ res'.err = Nil
                 /\ {res'.rmdses[i].MD : i \in DOMAIN res'.rmdses}
                      = LatestMDs(b)'
                 /\ Len(res'.rmdses) <= 1
                 /\ res'.rmdses = <<>> <=> journals'[b].entries = <<>>
       /\ IF PutTo(b) THEN LatestMDs(b)' = {req'.rmds.MD}
          ELSE LatestMDs(b)' = LatestMDs(b)
    ]_vars

\* C12's case: a reader of the merged head who is not its writer reads the
\* head of an unmerged branch that has two entries.
C12_Witness ==
  /\ pc = "returned"
  /\ req.op = "getForTLF"
  /\ req.uid = "B"
  /\ req.bid = "b1"
  /\ res.err = Nil
  /\ Len(journals["b1"].entries) = 2
  /\ res.rmdses # <<>>
  /\ res.rmdses[1].MD.Revision = latestRevision(journals["b1"])

\* C13: a put returns recordBranchID = true exactly when it succeeds, its
\* metadata is flagged unmerged and its branch had no head when it was
\* called (every failed put and every other successful put returns false);
\* in that case the head it is compared with is the merged entry at its
\* revision - 1: without exactly one such entry the put fails and stores
\* nothing, and it succeeds only as a valid successor of that entry.
C13_RecordBranchID ==
  [][PutCall =>
       /\ res'.recordBranchID
            <=> /\ res'.err = Nil
                /\ req'.rmds.MD.MStatus = "Unmerged"
                /\ HeadOf(req'.rmds.MD.BID) = {}
       /\ (req'.rmds.MD.MStatus = "Unmerged" /\ HeadOf(req'.rmds.MD.BID) = {})
            => /\ MergedAt(req'.rmds.MD.Revision - 1) = {}
                    => /\ res'.err # Nil
                       /\ UNCHANGED <<mds, wkbs, rkbs, journals,
                                      branchJournals>>
               /\ res'.err = Nil
                    => \E h \in MergedAt(req'.rmds.MD.Revision - 1) :
                         CheckValidSuccessorForServer(ObjectMD(h), h,
                                                      req'.rmds.MD)
    ]_vars

\* C13's case: the first put of an unmerged branch, on top of the merged
\* revision before it, has succeeded and asked for a branch record.
C13_Witness ==
  /\ pc = "returned"
  /\ req.op = "put"
  /\ req.rmds.MD.MStatus = "Unmerged"
  /\ res.err = Nil
  /\ res.recordBranchID
  /\ Len(journals[req.rmds.MD.BID].entries) = 1
  /\ req.rmds.MD.PrevRoot \in MergedAt(req.rmds.MD.Revision - 1)

\* The first revision a range read of a journal returns.
EffectiveStart(bid, start) ==
  IF start < journals[bid].earliest THEN journals[bid].earliest ELSE start

\* C14: in every state that puts lead to, each journal entry names an
\* object whose revision is the entry's ordinal; no getRange (and no range
\* read inside a put) trips the revision assertion, and the i-th object a
\* successful getRange returns has revision effectiveStart + i (counting
\* from 0), for every branch and every [start, stop].
C14_RangeNeverPanics ==
  /\ Contiguous
  /\ (pc = "returned" /\ req.op \in {"getRange", "put"})
       => res.err.kind # "panic"
  /\ (pc = "returned" /\ req.op = "getRange" /\ res.err = Nil)
       => \A i \in DOMAIN res.rmdses :
            res.rmdses[i].MD.Revision
              = EffectiveStart(req.bid, req.start) + (i - 1)

\* C14's case: a range asked from revision 1 of a journal that starts at
\* revision 2 returns revisions 2 and 3.
C14_Witness ==
  /\ pc = "returned"
  /\ req.op = "getRange"
  /\ req.start = 1
  /\ journals[req.bid].earliest = 2
  /\ res.err = Nil
  /\ Len(res.rmdses) = 2
  /\ res.rmdses[2].MD.Revision = 3

\* The kinds of error the coordinator's boundary is said to return: the
\* wrapped storage error, the request errors, the shutdown error, and the
\* successor-validation failure returned as it is.
BoundaryErrors ==
  {"MDServerError", "Unauthorized", "BadRequest", "Shutdown",
   "InvalidSuccessor"}

\* C15: every error put, getForTLF or getRange returns is the wrapped
\* storage error when a store or a journal failed; the only error returned
\* unwrapped, besides the request and shutdown errors, is put's
\* successor-validation failure.
C15_StorageErrorsWrapped ==
  (pc = "returned" /\ req.op \in {"put", "getForTLF", "getRange"}
     /\ res.err # Nil)
    => res.err.kind \in BoundaryErrors

\* The key bundles of a put resolve: they are passed along, or the metadata
\* names none, or it names a stored pair.
BundlesResolve(r) ==
  \/ r.extra # NoExtra
  \/ r.rmds.MD.WKBID = EmptyID /\ r.rmds.MD.RKBID = EmptyID
  \/ r.rmds.MD.WKBID \in DOMAIN wkbs /\ r.rmds.MD.RKBID \in DOMAIN rkbs

\* C16: on a working disk a put fails at the first of its checks that
\* fails, in the order bundle resolution (storage error), signature
\* (BadRequest), last modifier (BadRequest), authorization (Unauthorized),
\* successor (the successor error): unsigned or misattributed metadata
\* whose bundles resolve is a BadRequest also when the caller is
\* unauthorized or the metadata is no valid successor; and every BadRequest
\* leaves the stores, the journals and the journal map unchanged.
C16_ChecksInOrder ==
  [][PutCall =>
       /\ req'.fault = "none" =>
            IF ~BundlesResolve(req') THEN res'.err.kind = "MDServerError"
            ELSE IF ~IsValidAndSigned(req'.rmds, req'.extra)
            THEN res'.err = MDServerErrorBadRequest(Err("NotValidAndSigned"))
            ELSE IF ~IsLastModifiedBy(req'.rmds, req'.uid, req'.key)
            THEN res'.err = MDServerErrorBadRequest(Err("NotLastModifiedBy"))
            ELSE IF ~Authorized(req')
            THEN res'.err = MDServerErrorUnauthorized
            ELSE (\E h \in CmpHeads(req'.rmds.MD) :
                    ~CheckValidSuccessorForServer(h, MakeMdID(h),
                                                  req'.rmds.MD))
                   => res'.err = Err("InvalidSuccessor")
       /\ res'.err.kind = "BadRequest"
            => UNCHANGED <<mds, wkbs, rkbs, journals, branchJournals>>
    ]_vars

\* C16's case: a caller who is no writer of the merged head puts metadata
\* that is not signed by them and is no successor of the head, and gets
\* BadRequest.
C16_Witness ==
  /\ pc = "returned"
  /\ req.op = "put"
  /\ res.err.kind = "BadRequest"
  /\ MergedHeadMDs # {}
  /\ ~Authorized(req)
  /\ \E h \in CmpHeads(req.rmds.MD) :
       ~CheckValidSuccessorForServer(h, MakeMdID(h), req.rmds.MD)

\* Every object of the store is still stored, unchanged, after the step.
ObjectsKept ==
  \A id \in DOMAIN mds : id \in DOMAIN mds' /\ mds'[id] = mds[id]

\* Every journal after the step starts with what it held before, at the
\* same revisions.
JournalsExtended ==
  \A b \in Branches :
    /\ Len(journals[b].entries) <= Len(journals'[b].entries)
    /\ \A i \in DOMAIN journals[b].entries :
         journals'[b].entries[i] = journals[b].entries[i]
    /\ journals[b].entries # <<>>
         => journals'[b].earliest = journals[b].earliest

\* C17: with put run as its steps, failures, restarts and a clock that
\* moves, no step changes or removes a stored envelope, and no step changes
\* the id recorded at a (branch, revision) or shortens a journal: every
\* journal has its previous entries as a prefix.
C17_AppendOnly ==
  [][ObjectsKept /\ JournalsExtended]_vars

\* C17's case: the object of a put is stored but no journal names it, the
\* clock has moved since it was written, and the same metadata is being put
\* again.
C17_Witness ==
  /\ pc = "putExtra"
  /\ req.id \in DOMAIN mds
  /\ req.id \notin JournalIDs
  /\ mds[req.id].Timestamp < clock

\* The metadata the entries of the journals name.
JournalMDs == {ObjectMD(id) : id \in JournalIDs \cap DOMAIN mds}

\* C18: with put run as its steps, every kind of bundle naming, failures
\* and restarts, every revision a journal holds names both key bundles or
\* none, and when it names them both are stored, each under the id that is
\* the hash of what is stored.
C18_BundlesOfJournaledRevisions ==
  /\ JournalIDs \subseteq DOMAIN mds
  /\ \A md \in JournalMDs :
       /\ (md.WKBID = EmptyID) <=> (md.RKBID = EmptyID)
       /\ md.WKBID # EmptyID
            => /\ md.WKBID \in DOMAIN wkbs
               /\ md.RKBID \in DOMAIN rkbs
               /\ MakeTLFWriterKeyBundleID(wkbs[md.WKBID]) = md.WKBID
               /\ MakeTLFReaderKeyBundleID(rkbs[md.RKBID]) = md.RKBID

\* C18's case: a put that names bundles was stopped after its writer
\* bundle was written (the reader bundle is missing, the object is stored),
\* while the merged journal holds a revision.
C18_Witness ==
  /\ pc = "idle"
  /\ journals[NullBranchID].entries # <<>>
  /\ DOMAIN wkbs # {}
  /\ DOMAIN rkbs = {}
  /\ \E id \in DOMAIN mds \ JournalIDs : ObjectMD(id).WKBID \in DOMAIN wkbs

\* C19: on an open coordinator and a working disk the reads see the
\* entries the directory holds for a branch, whether or not a put to that
\* branch was made on this coordinator: journalLength returns their number,
\* getForTLF returns the latest to a reader of the stored merged head,
\* getRange returns those in its range, and a caller who is no reader of
\* the stored merged head is refused by the reads, one who is no writer of
\* it (and asks for no valid rekey) by put.
C19_ReadsSeeStoredJournals ==
  [][(pc = "idle" /\ pc' = "returned" /\ Open /\ Open'
        /\ req'.op \in {"journalLength", "getForTLF", "getRange", "put"}
        /\ req'.fault = "none")
       => /\ req'.op = "journalLength"
               => res'.n = Len(journals[req'.bid].entries)
          /\ \A u \in Users :
               (req'.op \in {"getForTLF", "getRange"} /\ req'.uid = u)
                 => IF ~PassesReaderGate(u)
                    THEN res'.err = MDServerErrorUnauthorized
                    ELSE /\ res'.err = Nil
                         /\ req'.op = "getForTLF"
                              => (res'.rmdses = <<>>
                                    <=> journals[req'.bid].entries = <<>>)
                         /\ (req'.op = "getRange" /\ req'.start = 1
                               /\ req'.stop = MaxRev)
                              => Len(res'.rmdses)
                                   = Len(journals[req'.bid].entries)
          /\ (req'.op = "put" /\ ~Authorized(req')) => res'.err # Nil
    ]_vars

\* The operations that only read.
ReadOps == {"getForTLF", "getRange", "journalLength", "getKeyBundles"}

\* C20: a getForTLF, getRange, journalLength or getKeyBundles call leaves
\* the object store, the key-bundle store, every journal (its directory
\* included) and the journal map as they were, whatever it returns; in
\* particular a branch without a journal has none after it was read.
C20_ReadsChangeNothing ==
  [][(pc = "idle" /\ req'.op \in ReadOps)
       => /\ UNCHANGED <<mds, wkbs, rkbs, journals, branchJournals>>
          /\ req'.op # "getKeyBundles"
               => /\ ~journals[req'.bid].dir => ~journals'[req'.bid].dir
                  /\ req'.bid \notin branchJournals
                       => req'.bid \notin branchJournals'
    ]_vars

\* C20's case: the head of a branch that was never written has been asked
\* for on a coordinator that holds other journals; the answer is nothing,
\* and the branch still has no journal.
C20_Witness ==
  /\ pc = "returned"
  /\ req.op = "getForTLF"
  /\ req.bid = "b2"
  /\ res.err = Nil
  /\ res.rmdses = <<>>
  /\ NullBranchID \in branchJournals
  /\ "b2" \notin branchJournals
  /\ ~journals["b2"].dir

\* C21: no interleaving of put, getForTLF, getRange, journalLength,
\* getKeyBundles and shutdown deadlocks: under fair scheduling every call
\* that was made returns, whichever operation it is and whatever the other
\* threads call meanwhile.
\* A thread that is in no call holds nothing of s.lock; it is released on
\* every way out.
C21_EveryCallReturns ==
  /\ \A t \in Threads : (tpc[t] # "idle") ~> (tpc[t] = "idle")
  /\ [](\A t \in Threads :
          tpc[t] = "idle"
            => lockW # t /\ t \notin lockR /\ t \notin lockPending)

\* C21's case: a put holds the lock and has run its body, a reader that
\* called meanwhile is blocked behind it, and another writer waits for its
\* turn.
C21_Witness ==
  \E t, u, w \in Threads :
    /\ top[t] = "put" /\ tpc[t] = "ran" /\ lockW = t
    /\ top[u] = "getRange" /\ tpc[u] = "blocked"
    /\ top[w] = "shutdown" /\ tpc[w] = "waiting"

====
